---- MODULE Spec2Model ----
(***************************************************************************)
(* PBM ETL data processor (src/etl_data_processor.py): the rule engine     *)
(* PBMDataValidator.validate_claim_data and the per-file staged-commit     *)
(* pipeline PBMETLProcessor.process_json_file / process_valid_claim.       *)
(*                                                                         *)
(* Text values are sequences of one-character strings, so that the regular *)
(* expressions, strptime and float() are computed on the characters.       *)
(* Numbers are carried in hundredths (17.50 is 1750).                      *)
(***************************************************************************)
EXTENDS Integers, Sequences, FiniteSets, TLC

VARIABLES
    pc,                 \* position of process_json_file
    file,               \* what open()/json.load() find at file_path
    claims_data,        \* the list iterated by the for loop
    i,                  \* enumerate(claims_data, 1) position of the next record
    valid_records, invalid_records, processed_records,
    cursorBound,        \* whether the local `cursor` has been assigned
    txOpen,             \* a unit of work is open on the connection
    txAborted,          \* the open transaction is in the failed state
    txStaging,          \* claims_staging rows inserted in the open transaction
    txClaims,           \* process_claim effects of the open transaction
    staging,            \* durable claims_staging rows
    claims,             \* durable process_claim effects
    exc,                \* exception caught by the outer except clause
    raised,             \* exception that leaves process_json_file
    returned,           \* the returned triple, <<>> before the return
    commits, rollbacks, \* successful connection.commit() / connection.rollback() calls
    log,                \* per-record events, in program order
    today,              \* datetime.now().date() as a day ordinal
    claim_data,         \* the record handed to validate_claim_data
    env,                \* how the store answers the lookups of one evaluation
    verdict             \* outcome of validate_claim_data, NoVerdict before the call

vars == <<pc, file, claims_data, i, valid_records, invalid_records,
          processed_records, cursorBound, txOpen, txAborted, txStaging, txClaims,
          staging, claims, exc, raised, returned, commits, rollbacks, log,
          today, claim_data, env, verdict>>

----------------------------------------------------------------------------
(* Values of a JSON record field *)

Absent == [t |-> "absent", s |-> <<>>, n |-> 0]      \* key not in the mapping
Null   == [t |-> "null",   s |-> <<>>, n |-> 0]      \* JSON null
Str(s) == [t |-> "str",    s |-> s,    n |-> 0]      \* JSON string
Num(n) == [t |-> "num",    s |-> <<>>, n |-> n]      \* JSON number, in hundredths
List1  == [t |-> "list",   s |-> <<>>, n |-> 1]      \* a non-empty JSON array

\* Python truth value of a field value: `not claim_data[field]`
Truthy(v) ==
    CASE v.t = "str"  -> v.s # <<>>
      [] v.t = "num"  -> v.n # 0
      [] v.t = "list" -> v.n # 0
      [] OTHER        -> FALSE

Digit == {"0", "1", "2", "3", "4", "5", "6", "7", "8", "9"}

DigitVal(c) ==
    CASE c = "0" -> 0 [] c = "1" -> 1 [] c = "2" -> 2 [] c = "3" -> 3
      [] c = "4" -> 4 [] c = "5" -> 5 [] c = "6" -> 6 [] c = "7" -> 7
      [] c = "8" -> 8 [] c = "9" -> 9

AllDigits(s) == \A k \in 1..Len(s) : s[k] \in Digit

RECURSIVE DecimalValue(_)
DecimalValue(s) ==
    IF s = <<>> THEN 0
    ELSE 10 * DecimalValue(SubSeq(s, 1, Len(s) - 1)) + DigitVal(s[Len(s)])

----------------------------------------------------------------------------
(* re.match(r'^...$', s): `$` matches at the end of the string and also just *)
(* before a newline that ends the string.                                    *)

DollarBodies(s) ==
    {s} \cup (IF Len(s) > 0 /\ s[Len(s)] = "\n"
              THEN {SubSeq(s, 1, Len(s) - 1)} ELSE {})

\* \d{a}-\d{b}-\d{c}
DigitGroups(b, g) ==
    /\ Len(b) = g[1] + g[2] + g[3] + 2
    /\ AllDigits(SubSeq(b, 1, g[1]))
    /\ b[g[1] + 1] = "-"
    /\ AllDigits(SubSeq(b, g[1] + 2, g[1] + g[2] + 1))
    /\ b[g[1] + g[2] + 2] = "-"
    /\ AllDigits(SubSeq(b, g[1] + g[2] + 3, Len(b)))

ndc_patterns == << <<5, 3, 2>>, <<5, 4, 1>>, <<4, 4, 2>> >>

NdcFormatValid(s) ==
    \E p \in 1..Len(ndc_patterns) :
        \E b \in DollarBodies(s) : DigitGroups(b, ndc_patterns[p])

NpiDigits == 10

NpiFormatValid(s) ==
    \E b \in DollarBodies(s) : Len(b) = NpiDigits /\ AllDigits(b)

----------------------------------------------------------------------------
(* float(text): surrounding whitespace is stripped, an optional sign, then   *)
(* digits with an optional fraction, or "nan".  The texts of this model use  *)
(* no exponent, underscore or "inf", and at most two fractional digits.      *)

Whitespace == {" ", "\n", "\t"}

RECURSIVE LStrip(_)
LStrip(s) ==
    IF s # <<>> /\ s[1] \in Whitespace THEN LStrip(Tail(s)) ELSE s

RECURSIVE RStrip(_)
RStrip(s) ==
    IF s # <<>> /\ s[Len(s)] \in Whitespace
    THEN RStrip(SubSeq(s, 1, Len(s) - 1)) ELSE s

\* position of the first c in s, 0 when there is none
RECURSIVE IndexOf(_, _, _)
IndexOf(s, c, k) ==
    IF k > Len(s) THEN 0 ELSE IF s[k] = c THEN k ELSE IndexOf(s, c, k + 1)

FloatError == [k |-> "error", v |-> 0]
FloatNaN   == [k |-> "nan",   v |-> 0]
FloatOf(v) == [k |-> "num",   v |-> v]

Hundredths(frac) ==
    CASE Len(frac) = 0 -> 0
      [] Len(frac) = 1 -> 10 * DigitVal(frac[1])
      [] OTHER         -> 10 * DigitVal(frac[1]) + DigitVal(frac[2])

UnsignedFloat(u) ==
    LET dot   == IndexOf(u, ".", 1)
        whole == IF dot = 0 THEN u ELSE SubSeq(u, 1, dot - 1)
        frac  == IF dot = 0 THEN <<>> ELSE SubSeq(u, dot + 1, Len(u))
    IN  IF u = <<"n", "a", "n">> THEN FloatNaN
        ELSE IF /\ AllDigits(whole) /\ AllDigits(frac)
                /\ Len(whole) + Len(frac) > 0
             THEN FloatOf(100 * DecimalValue(whole) + Hundredths(frac))
             ELSE FloatError

ParseFloat(s) ==
    LET u == RStrip(LStrip(s))
    IN  IF u # <<>> /\ u[1] = "-"
        THEN LET r == UnsignedFloat(Tail(u))
             IN  IF r.k = "num" THEN FloatOf(0 - r.v) ELSE r
        ELSE IF u # <<>> /\ u[1] = "+" THEN UnsignedFloat(Tail(u))
        ELSE UnsignedFloat(u)

\* float(claim_data[field]): ValueError for unparsable text, TypeError for a
\* value that is neither text nor a number
PyFloat(v) ==
    CASE v.t = "str" -> ParseFloat(v.s)
      [] v.t = "num" -> FloatOf(v.n)
      [] OTHER       -> [k |-> "TypeError", v |-> 0]

----------------------------------------------------------------------------
(* datetime.strptime(text, '%Y-%m-%d').date() as a proleptic day ordinal;    *)
(* 0 stands for ValueError.                                                  *)

IsLeap(y) == (y % 4 = 0) /\ ((y % 100 # 0) \/ (y % 400 = 0))

DaysInMonth(y, m) ==
    CASE m \in {1, 3, 5, 7, 8, 10, 12} -> 31
      [] m \in {4, 6, 9, 11}           -> 30
      [] OTHER                         -> IF IsLeap(y) THEN 29 ELSE 28

RECURSIVE DaysBeforeMonth(_, _)
DaysBeforeMonth(y, m) ==
    IF m = 1 THEN 0 ELSE DaysBeforeMonth(y, m - 1) + DaysInMonth(y, m - 1)

ToOrdinal(y, m, d) ==
    (y - 1) * 365 + ((y - 1) \div 4) - ((y - 1) \div 100) + ((y - 1) \div 400)
        + DaysBeforeMonth(y, m) + d

ParseDate(s) ==
    LET h1   == IndexOf(s, "-", 1)
        rest == IF h1 = 0 THEN <<>> ELSE SubSeq(s, h1 + 1, Len(s))
        h2   == IndexOf(rest, "-", 1)
        ys   == IF h1 = 0 THEN <<>> ELSE SubSeq(s, 1, h1 - 1)
        ms   == IF h2 = 0 THEN <<>> ELSE SubSeq(rest, 1, h2 - 1)
        ds   == IF h2 = 0 THEN <<>> ELSE SubSeq(rest, h2 + 1, Len(rest))
        y    == DecimalValue(ys)
        m    == DecimalValue(ms)
        d    == DecimalValue(ds)
    IN  IF /\ h1 # 0 /\ h2 # 0
           /\ Len(ys) = 4 /\ AllDigits(ys)
           /\ Len(ms) \in {1, 2} /\ AllDigits(ms)
           /\ Len(ds) \in {1, 2} /\ AllDigits(ds)
        THEN IF y >= 1 /\ m \in 1..12 /\ d >= 1 /\ d <= DaysInMonth(y, m)
             THEN ToOrdinal(y, m, d) ELSE 0
        ELSE 0

----------------------------------------------------------------------------
(* Reference entities of the external store (read-only to the program)      *)

M_ACTIVE   == <<"M", "0", "0", "1">>
M_INACTIVE == <<"M", "0", "0", "2">>
M_UNKNOWN  == <<"I", "N", "V", "A", "L", "I", "D">>

N_532    == <<"5","0","4","5","8","-","2","2","0","-","1","0">>
N_541    == <<"0","0","0","9","3","-","0","0","5","8","-","1">>
N_442    == <<"0","0","9","3","-","0","0","5","8","-","0","1">>
N_542    == <<"0","0","0","9","3","-","0","0","5","8","-","0","1">>
N_532_NL == N_532 \o <<"\n">>
N_532_X  == <<"1","1","1","1","1","-","1","1","1","-","1","1">>
N_WORDS  == <<"I","N","V","A","L","I","D","-","N","D","C","-","C","O","D","E">>

P_IN      == <<"1","2","3","4","5","6","7","8","9","0">>
P_OUT     == <<"1","2","3","4","5","6","7","8","9","1">>
P_UNKNOWN == <<"1","2","3","4","5","6","7","8","9","9">>
P_IN_NL   == P_IN \o <<"\n">>
P_SHORT   == <<"1","2","3","4","5">>

\* members.eligibility_status by member_id, "none" when there is no row
MemberStatus(s) ==
    CASE s = M_ACTIVE   -> "active"
      [] s = M_INACTIVE -> "inactive"
      [] OTHER          -> "none"

\* drugs.drug_id by ndc_code, 0 when there is no row
DrugId(s) ==
    CASE s = N_532 -> 11 [] s = N_541 -> 12 [] s = N_442 -> 13 [] s = N_542 -> 14
      [] OTHER -> 0

\* pharmacies row by npi: <<found, pbm_network, pharmacy_id>>
PharmacyRow(s) ==
    CASE s = P_IN  -> <<TRUE, TRUE, 21>>
      [] s = P_OUT -> <<TRUE, FALSE, 22>>
      [] OTHER     -> <<FALSE, FALSE, 0>>

----------------------------------------------------------------------------
(* PBMDataValidator                                                          *)

required_fields == <<"member_id", "ndc", "pharmacy_npi", "date_filled", "quantity", "cost">>

Lookups == {"member", "ndc", "npi"}

Msg(m, f) == [msg |-> m, field |-> f]

\* evaluation state: the two lists, the cursor.execute calls made, the checks
\* entered, the exception leaving validate_claim_data, and the transaction state
StartEval(aborted) ==
    [errors |-> <<>>, warnings |-> <<>>, lookups |-> <<>>, checks |-> <<>>,
     raised |-> "none", aborted |-> aborted, returned |-> FALSE]

\* cursor.execute of a lookup inside try/except: whether it answers.  A
\* statement of a failed transaction fails; a failing statement fails the
\* transaction when the error is the server's (e.srv), not when it is raised
\* on the client side.
\* a lookup whose error is taken for an answer
AnswersDespiteError(name, st, e) == ~st.aborted

Answers(name, st, e) == ~st.aborted /\ name \notin e.fail

AfterLookup(name, st, e) ==
    [st EXCEPT !.lookups = Append(@, name),
               !.aborted = @ \/ (name \in e.fail /\ e.srv)]

validate_member_id(v, st, e) ==
    Answers("member", st, e) /\ v.t = "str" /\ MemberStatus(v.s) = "active"

validate_ndc_code_looks_up(v) == NdcFormatValid(v.s)

validate_ndc_code(v, st, e) ==
    /\ validate_ndc_code_looks_up(v)
    /\ Answers("ndc", st, e) /\ DrugId(v.s) # 0

validate_pharmacy_npi_looks_up(v) == NpiFormatValid(v.s)

validate_pharmacy_npi(v, st, e) ==
    /\ validate_pharmacy_npi_looks_up(v)
    /\ Answers("npi", st, e) /\ PharmacyRow(v.s)[1] /\ PharmacyRow(v.s)[2]

AddError(st, m, f) == [st EXCEPT !.errors = Append(@, Msg(m, f))]
AddWarning(st, m, f) == [st EXCEPT !.warnings = Append(@, Msg(m, f))]
Enter(st, check) == [st EXCEPT !.checks = Append(@, check)]
Raise(st, x) == [st EXCEPT !.raised = x]

\* lines 113-116: one error per required field that is absent or falsy
RECURSIVE MissingErrors(_, _)
MissingErrors(c, k) ==
    IF k > Len(required_fields) THEN <<>>
    ELSE LET f == required_fields[k]
         IN  (IF c[f].t = "absent" \/ ~Truthy(c[f])
              THEN <<Msg("Missing required field", f)>> ELSE <<>>)
             \o MissingErrors(c, k + 1)

\* lines 112-119
CheckRequired(c, st) ==
    LET errs == MissingErrors(c, 1)
    IN  [st EXCEPT !.errors = errs, !.returned = (errs # <<>>)]

\* lines 121-123
CheckMember(c, st, e) ==
    LET v  == c["member_id"]
        s1 == AfterLookup("member", Enter(st, "member"), e)
    IN  IF validate_member_id(v, st, e) THEN s1
        ELSE AddError(s1, "Invalid or inactive member ID", "member_id")

\* lines 125-127; re.match raises TypeError for a value that is not text
CheckNdc(c, st, e) ==
    LET v  == c["ndc"]
        s0 == Enter(st, "ndc")
        s1 == IF validate_ndc_code_looks_up(v) THEN AfterLookup("ndc", s0, e) ELSE s0
    IN  IF v.t # "str" THEN Raise(s0, "TypeError")
        ELSE IF validate_ndc_code(v, st, e) THEN s1
        ELSE AddError(s1, "Invalid NDC code", "ndc")

\* lines 129-131
CheckNpi(c, st, e) ==
    LET v  == c["pharmacy_npi"]
        s0 == Enter(st, "pharmacy_npi")
        s1 == IF validate_pharmacy_npi_looks_up(v) THEN AfterLookup("npi", s0, e) ELSE s0
    IN  IF v.t # "str" THEN Raise(s0, "TypeError")
        ELSE IF validate_pharmacy_npi(v, st, e) THEN s1
        ELSE AddError(s1, "Invalid or out-of-network pharmacy NPI", "pharmacy_npi")

MaxAgeDays == 365

\* the date check with today's date taken for a future date and a date
\* exactly MaxAgeDays old taken for too old
CheckDateInclusive(c, st, d) ==
    LET v  == c["date_filled"]
        s0 == Enter(st, "date_filled")
        fill_date == ParseDate(v.s)
    IN  IF v.t # "str" THEN Raise(s0, "TypeError")
        ELSE IF fill_date = 0 THEN AddError(s0, "Invalid date format", "date_filled")
        ELSE IF fill_date >= d
             THEN AddError(s0, "Fill date cannot be in the future", "date_filled")
        ELSE IF fill_date <= d - MaxAgeDays
             THEN AddWarning(s0, "Fill date is more than 1 year old", "date_filled")
        ELSE s0

\* lines 133-141; strptime raises TypeError for a value that is not text
CheckDate(c, st, d) ==
    LET v  == c["date_filled"]
        s0 == Enter(st, "date_filled")
        fill_date == ParseDate(v.s)
    IN  IF v.t # "str" THEN Raise(s0, "TypeError")
        ELSE IF fill_date = 0 THEN AddError(s0, "Invalid date format", "date_filled")
        ELSE IF fill_date > d
             THEN AddError(s0, "Fill date cannot be in the future", "date_filled")
        ELSE IF fill_date < d - MaxAgeDays
             THEN AddWarning(s0, "Fill date is more than 1 year old", "date_filled")
        ELSE s0

QuantityHigh == 1000

\* lines 143-151; float raises TypeError for a value that is neither text nor number
CheckQuantity(c, st) ==
    LET s0 == Enter(st, "quantity")
        quantity == PyFloat(c["quantity"])
    IN  CASE quantity.k = "TypeError" -> Raise(s0, "TypeError")
          [] quantity.k = "error" -> AddError(s0, "Invalid quantity", "quantity")
          [] quantity.k = "nan"   -> s0
          [] OTHER ->
               IF quantity.v <= 0
               THEN AddError(s0, "Quantity must be positive", "quantity")
               ELSE IF quantity.v > QuantityHigh * 100
               THEN AddWarning(s0, "Unusually high quantity dispensed", "quantity")
               ELSE s0

CostHigh == 50000

\* lines 153-161
CheckCost(c, st) ==
    LET s0 == Enter(st, "cost")
        cost == PyFloat(c["cost"])
    IN  CASE cost.k = "TypeError" -> Raise(s0, "TypeError")
          [] cost.k = "error" -> AddError(s0, "Invalid cost", "cost")
          [] cost.k = "nan"   -> s0
          [] OTHER ->
               IF cost.v < 0
               THEN AddError(s0, "Cost cannot be negative", "cost")
               ELSE IF cost.v > CostHigh * 100
               THEN AddWarning(s0, "Unusually high cost - potential specialty drug", "cost")
               ELSE s0

\* a statement runs only while no exception is propagating and no return was taken
Running(st) == st.raised = "none" /\ ~st.returned

\* a ValidationResult that a warning makes invalid
ResultOfNoWarnings(st) ==
    [errors   |-> st.errors,
     warnings |-> st.warnings,
     is_valid |-> st.raised = "none" /\ ~st.returned /\ Len(st.errors) = 0
                      /\ Len(st.warnings) = 0,
     lookups  |-> st.lookups,
     checks   |-> st.checks,
     raised   |-> st.raised,
     aborted  |-> st.aborted]

\* line 119 and line 163: the ValidationResult, with what the evaluation did
ResultOf(st) ==
    [errors   |-> st.errors,
     warnings |-> st.warnings,
     is_valid |-> st.raised = "none" /\ ~st.returned /\ Len(st.errors) = 0,
     lookups  |-> st.lookups,
     checks   |-> st.checks,
     raised   |-> st.raised,
     aborted  |-> st.aborted]

Only(S) == CHOOSE x \in S : TRUE

\* lines 107-163: validate_claim_data for record c, store answers e,
\* transaction state `aborted`, current date d; each statement works on the
\* evaluation state its predecessor left
validate_claim_data(c, e, aborted, d) ==
    Only({ResultOf(s7) :
      s7 \in {IF Running(s6) THEN CheckCost(c, s6) ELSE s6 :
      s6 \in {IF Running(s5) THEN CheckQuantity(c, s5) ELSE s5 :
      s5 \in {IF Running(s4) THEN CheckDate(c, s4, d) ELSE s4 :
      s4 \in {IF Running(s3) THEN CheckNpi(c, s3, e) ELSE s3 :
      s3 \in {IF Running(s2) THEN CheckNdc(c, s2, e) ELSE s2 :
      s2 \in {IF Running(s1) THEN CheckMember(c, s1, e) ELSE s1 :
      s1 \in {CheckRequired(c, StartEval(aborted))}}}}}}}})

NoVerdict ==
    [errors |-> <<>>, warnings |-> <<>>, is_valid |-> FALSE, lookups |-> <<>>,
     checks |-> <<>>, raised |-> "not called", aborted |-> FALSE]

----------------------------------------------------------------------------
(* Input records                                                             *)

D_TODAY   == <<"2","0","2","4","-","0","3","-","1","5">>
D_FUTURE  == <<"2","0","2","4","-","0","3","-","1","6">>
D_365     == <<"2","0","2","3","-","0","3","-","1","6">>
D_366     == <<"2","0","2","3","-","0","3","-","1","5">>
D_SHORT   == <<"2","0","2","4","-","3","-","5">>
D_FEB30   == <<"2","0","2","4","-","0","2","-","3","0">>
D_SLASH   == <<"0","3","/","1","5","/","2","0","2","4">>
D_NL      == D_TODAY \o <<"\n">>

Today == ToOrdinal(2024, 3, 15)

FieldSamples ==
    [member_id    |-> {Absent, Null, Str(<<>>), Str(M_ACTIVE), Str(M_INACTIVE),
                       Str(M_UNKNOWN), Num(100)},
     ndc          |-> {Absent, Str(<<>>), Str(N_532), Str(N_541), Str(N_442),
                       Str(N_542), Str(N_532_NL), Str(N_532_X), Str(N_WORDS),
                       Num(50458)},
     pharmacy_npi |-> {Absent, Str(<<>>), Str(P_IN), Str(P_OUT), Str(P_UNKNOWN),
                       Str(P_IN_NL), Str(P_SHORT), Num(12345)},
     date_filled  |-> {Absent, Str(<<>>), Str(D_TODAY), Str(D_FUTURE), Str(D_365),
                       Str(D_366), Str(D_SHORT), Str(D_FEB30), Str(D_SLASH),
                       Str(D_NL), Num(20240315)},
     quantity     |-> {Absent, Str(<<>>), Str(<<"6","0">>), Str(<<"0">>),
                       Str(<<"-","5">>), Str(<<"1","0","0","0">>),
                       Str(<<"1","0","0","0",".","5">>), Str(<<"a","b","c">>),
                       Str(<<"n","a","n">>), Num(6000), Num(0), List1},
     cost         |-> {Absent, Str(<<>>), Str(<<"1","7",".","5","0">>), Str(<<"0">>),
                       Str(<<"-","1">>), Str(<<"5","0","0","0","0">>),
                       Str(<<"5","0","0","0","0",".","0","1">>), Str(<<"x">>),
                       Num(1750), Num(0), List1}]

Fields == {required_fields[k] : k \in 1..Len(required_fields)}

\* a record that passes every rule, and per field one value that fails its rule
GoodClaim ==
    [member_id |-> Str(M_ACTIVE), ndc |-> Str(N_532), pharmacy_npi |-> Str(P_IN),
     date_filled |-> Str(D_TODAY), quantity |-> Str(<<"6","0">>),
     cost |-> Str(<<"1","7",".","5","0">>)]

BadClaim ==
    [member_id |-> Str(M_UNKNOWN), ndc |-> Str(N_WORDS), pharmacy_npi |-> Str(P_SHORT),
     date_filled |-> Str(D_FUTURE), quantity |-> Str(<<"0">>),
     cost |-> Str(<<"-","1">>)]

CoreClaims == [Fields -> {"good", "bad"}]

FromCore(k) == [f \in Fields |-> IF k[f] = "good" THEN GoodClaim[f] ELSE BadClaim[f]]

Vary(S) == UNION {{[c EXCEPT ![f] = v] : v \in FieldSamples[f]} : c \in S, f \in Fields}

\* every mix of passing and failing fields with one more field taken from the
\* samples, and the passing record with two fields taken from the samples
Claims == Vary({FromCore(k) : k \in CoreClaims}) \cup Vary(Vary({GoodClaim}))

\* how the store answers during one record: the lookups of the rule engine that
\* fail, and whether the store's errors are the server's (they fail the open
\* transaction) or raised on the client side (they do not)
Envs == {[fail |-> F, srv |-> s] : F \in SUBSET Lookups, s \in BOOLEAN}

EnvOk == [fail |-> {}, srv |-> FALSE]

----------------------------------------------------------------------------
(* Evaluation of one record on its own (the rule engine as a function)       *)

InitV ==
    /\ claim_data \in Claims
    /\ env \in Envs
    /\ txAborted \in BOOLEAN
    /\ today = Today
    /\ verdict = NoVerdict
    /\ pc = "idle" /\ file = <<>> /\ claims_data = <<>> /\ i = 0
    /\ valid_records = 0 /\ invalid_records = 0 /\ processed_records = 0
    /\ cursorBound = FALSE /\ txOpen = FALSE
    /\ txStaging = <<>> /\ txClaims = <<>> /\ staging = <<>> /\ claims = <<>>
    /\ exc = "none" /\ raised = "none" /\ returned = <<>>
    /\ commits = 0 /\ rollbacks = 0 /\ log = <<>>

\* validator.validate_claim_data(claim_data)
Validate ==
    /\ verdict = NoVerdict
    /\ \E v \in {validate_claim_data(claim_data, env, txAborted, today)} :
         /\ verdict' = v
         /\ txAborted' = v.aborted
         /\ txOpen' = (txOpen \/ v.lookups # <<>>)
    /\ UNCHANGED <<pc, file, claims_data, i, valid_records, invalid_records,
                   processed_records, cursorBound, txStaging, txClaims, staging,
                   claims, exc, raised, returned, commits, rollbacks, log,
                   today, claim_data, env>>

NextV == Validate

SpecV == InitV /\ [][NextV]_vars

----------------------------------------------------------------------------
(* PBMETLProcessor.process_json_file                                         *)

MaxRecords == 3

\* the records a batch file is made of, by name: one that passes every rule,
\* one with an unknown member, one with an empty drug code, and one whose
\* pharmacy identifier is a JSON number
PipelineClaims == {"C_VALID", "C_MEMBER", "C_MISSING", "C_NUMNPI"}

ClaimOf(name) ==
    CASE name = "C_VALID"   -> GoodClaim
      [] name = "C_MEMBER"  -> [GoodClaim EXCEPT !.member_id = Str(M_UNKNOWN)]
      [] name = "C_MISSING" -> [GoodClaim EXCEPT !.ndc = Str(<<>>)]
      [] name = "C_NUMNPI"  -> [GoodClaim EXCEPT !.pharmacy_npi = Num(12345)]

\* the store's answers tried per record of a batch: all lookups answer, or the
\* drug lookup fails; either with server-side or client-side errors
PipelineEnvs == {e \in Envs : e.fail \in {{}, {"ndc"}}}

RECURSIVE SeqsUpTo(_, _)
SeqsUpTo(S, n) ==
    IF n = 0 THEN {<<>>}
    ELSE LET shorter == SeqsUpTo(S, n - 1)
         IN  shorter \cup {Append(s, x) : s \in {q \in shorter : Len(q) = n - 1}, x \in S}

\* the two files main() processes, in this order
FirstFile == "sample_valid_claims.json"
SecondFile == "sample_invalid_claims.json"

\* what open() and json.load() find at the path `name`: nothing readable, an
\* array of up to n records, or a single record object
FilesNamed(name, n) ==
    {[name |-> name, kind |-> "unreadable", data |-> <<>>]}
        \cup {[name |-> name, kind |-> "list", data |-> s] :
                 s \in SeqsUpTo(PipelineClaims, n)}
        \cup {[name |-> name, kind |-> "object", data |-> c] : c \in PipelineClaims}

Files == FilesNamed(FirstFile, MaxRecords)

Init ==
    /\ pc = "start"
    /\ file \in Files
    /\ claims_data = <<>> /\ i = 0
    /\ valid_records = 0 /\ invalid_records = 0 /\ processed_records = 0
    /\ cursorBound = FALSE
    /\ txOpen = FALSE /\ txAborted = FALSE
    /\ txStaging = <<>> /\ txClaims = <<>>
    /\ staging = <<>> /\ claims = <<>>
    /\ exc = "none" /\ raised = "none" /\ returned = <<>>
    /\ commits = 0 /\ rollbacks = 0
    /\ log = <<>>
    /\ today = Today
    /\ claim_data = GoodClaim /\ env = EnvOk /\ verdict = NoVerdict

\* lines 198-205: open, json.load, single object or array, connection.cursor()
ReadFile ==
    /\ pc = "start"
    /\ IF file.kind = "unreadable"
       THEN /\ exc' = "FileError"
            /\ pc' = "except"
            /\ UNCHANGED <<claims_data, i, cursorBound>>
       ELSE /\ claims_data' = IF file.kind = "list" THEN file.data ELSE <<file.data>>
            /\ \E cursorOk \in BOOLEAN :
                 IF cursorOk
                 THEN /\ cursorBound' = TRUE /\ i' = 1 /\ pc' = "loop"
                      /\ UNCHANGED exc
                 ELSE /\ exc' = "CursorError" /\ pc' = "except"
                      /\ UNCHANGED <<i, cursorBound>>
    /\ UNCHANGED <<file, valid_records, invalid_records, processed_records,
                   txOpen, txAborted, txStaging, txClaims, staging, claims,
                   raised, returned, commits, rollbacks, log,
                   today, claim_data, env, verdict>>

\* lines 293-299: re.findall(r'\d+', external_member_id), first run or 1
RECURSIVE DigitRun(_, _)
DigitRun(s, k) ==
    IF k <= Len(s) /\ s[k] \in Digit THEN <<s[k]>> \o DigitRun(s, k + 1) ELSE <<>>

RECURSIVE FirstDigit(_, _)
FirstDigit(s, k) ==
    IF k > Len(s) THEN 0 ELSE IF s[k] \in Digit THEN k ELSE FirstDigit(s, k + 1)

DefaultKey == 1

get_member_id(s) ==
    IF FirstDigit(s, 1) = 0 THEN DefaultKey
    ELSE DecimalValue(DigitRun(s, FirstDigit(s, 1)))

\* lines 301-305
get_drug_id(s) == IF DrugId(s) # 0 THEN DrugId(s) ELSE DefaultKey

\* lines 307-311
get_pharmacy_id(s) == IF PharmacyRow(s)[1] THEN PharmacyRow(s)[3] ELSE DefaultKey

\* how the store answers process_valid_claim: "resolve_error" a key lookup
\* raises, "call_error" process_claim raises, "unpack_error" process_claim has
\* run and its row does not unpack into the six names of line 286
PromoteOutcomes == {"ok", "resolve_error", "call_error", "unpack_error"}

Event(op, pos, res) == [op |-> op, pos |-> pos, res |-> res]

\* lines 256-291: what process_valid_claim leaves behind for record c at
\* position pos: the process_claim effect, the transaction state, whether it
\* raises, and its events.  The effect is identified by the file and the
\* position of the record the call was made for.
process_valid_claim(c, pos, prom, srv) ==
    LET row == [file_name     |-> file.name,
                record_number |-> pos,
                member_id     |-> get_member_id(c["member_id"].s),
                drug_id       |-> get_drug_id(c["ndc"].s),
                pharmacy_id   |-> get_pharmacy_id(c["pharmacy_npi"].s)]
    IN  CASE prom = "resolve_error" ->
               [rows |-> <<>>, aborted |-> srv, raises |-> TRUE,
                events |-> <<Event("promote", pos, "raised")>>]
          [] prom = "call_error" ->
               [rows |-> <<>>, aborted |-> srv, raises |-> TRUE,
                events |-> <<Event("adjudicate", pos, "error"),
                             Event("promote", pos, "raised")>>]
          [] prom = "unpack_error" ->
               [rows |-> <<row>>, aborted |-> FALSE, raises |-> TRUE,
                events |-> <<Event("adjudicate", pos, "ok"),
                             Event("promote", pos, "raised")>>]
          [] OTHER ->
               [rows |-> <<row>>, aborted |-> FALSE, raises |-> FALSE,
                events |-> <<Event("adjudicate", pos, "ok"),
                             Event("promote", pos, "ok")>>]

StagingRow(c, pos, v) ==
    [file_name         |-> file.name,
     record_number     |-> pos,
     raw_data          |-> c,
     validation_status |-> IF v.is_valid THEN "valid" ELSE "invalid",
     error_messages    |-> v.errors \o v.warnings]

\* the counter of valid records never incremented
CountsValidNever(v) == FALSE

\* whether the counter is incremented before the promotion (line 230)
CountsValid(v) == v.is_valid

\* the promotion run whatever the verdict
PromotesAlways(v) == TRUE

\* whether the record is promoted (line 229)
Promotes(v) == v.is_valid

\* lines 208-240: the body of the loop for the record named c at position
\* pos, v the outcome of line 210, with the store answering the INSERT as ins
\* ("ok" or "error") and the promotion as prom, its errors server-side iff srv
RecordOutcome(c, pos, v, srv, ins, prom) ==
    LET p == process_valid_claim(ClaimOf(c), pos, prom, srv)
        evaluated == Event("evaluate", pos,
                           IF v.raised # "none" THEN "raised"
                           ELSE IF v.is_valid THEN "valid" ELSE "invalid")
    IN  IF v.raised # "none"
        THEN \* line 238: the evaluation raised, nothing staged
             [valid |-> 0, invalid |-> 1, processed |-> 0,
              staged |-> <<>>, rows |-> <<>>, aborted |-> v.aborted,
              opened |-> v.lookups # <<>>,
              events |-> <<evaluated>>]
        ELSE IF v.aborted \/ ins = "error"
        THEN \* line 238: the INSERT raised
             [valid |-> 0, invalid |-> 1, processed |-> 0,
              staged |-> <<>>, rows |-> <<>>,
              aborted |-> v.aborted \/ srv,
              opened |-> TRUE,
              events |-> <<evaluated, Event("stage", pos, "error")>>]
        ELSE IF Promotes(v)
        THEN [valid |-> IF CountsValid(v) THEN 1 ELSE 0,
              invalid |-> IF p.raises THEN 1 ELSE 0,
              processed |-> IF p.raises THEN 0 ELSE 1,
              staged |-> <<StagingRow(c, pos, v)>>, rows |-> p.rows,
              aborted |-> p.aborted,
              opened |-> TRUE,
              events |-> <<evaluated, Event("stage", pos, "ok")>> \o p.events]
        ELSE [valid |-> 0, invalid |-> 1, processed |-> 0,
              staged |-> <<StagingRow(c, pos, v)>>, rows |-> <<>>,
              aborted |-> FALSE,
              opened |-> TRUE,
              events |-> <<evaluated, Event("stage", pos, "ok")>>]

\* lines 207-240: one iteration of the for loop
ProcessRecord ==
    /\ pc = "loop"
    /\ i <= Len(claims_data)
    /\ \E e \in PipelineEnvs :
         /\ txAborted => e = EnvOk     \* every statement fails anyway
         /\ \E v \in {validate_claim_data(ClaimOf(claims_data[i]), e, txAborted, today)} :
                \E ins \in (IF v.raised = "none" /\ ~v.aborted
                            THEN {"ok", "error"} ELSE {"ok"}) :
                \E prom \in (IF v.is_valid /\ ins = "ok" /\ ~v.aborted
                             THEN PromoteOutcomes ELSE {"ok"}) :
                \E o \in {RecordOutcome(claims_data[i], i, v, e.srv, ins, prom)} :
                      /\ valid_records' = valid_records + o.valid
                      /\ invalid_records' = invalid_records + o.invalid
                      /\ processed_records' = processed_records + o.processed
                      /\ txStaging' = txStaging \o o.staged
                      /\ txClaims' = txClaims \o o.rows
                      /\ txAborted' = o.aborted
                      /\ txOpen' = (txOpen \/ o.opened)
                      /\ log' = log \o o.events
    /\ i' = i + 1
    /\ UNCHANGED <<pc, file, claims_data, cursorBound, staging, claims, exc,
                   raised, returned, commits, rollbacks,
                   today, claim_data, env, verdict>>

\* a commit that makes the rows durable and leaves the unit of work open
CommitLeavesUnitOpen ==
    /\ pc = "loop"
    /\ i > Len(claims_data)
    /\ \E commitOk \in BOOLEAN :
         IF txAborted \/ commitOk
         THEN /\ staging' = IF txAborted THEN staging ELSE staging \o txStaging
              /\ claims' = IF txAborted THEN claims ELSE claims \o txClaims
              /\ commits' = commits + 1
              /\ pc' = "committed"
              /\ UNCHANGED <<exc, txStaging, txClaims, txOpen, txAborted>>
         ELSE /\ exc' = "CommitError"
              /\ pc' = "except"
              /\ UNCHANGED <<staging, claims, txStaging, txClaims, txOpen,
                             txAborted, commits>>
    /\ UNCHANGED <<file, claims_data, i, valid_records, invalid_records,
                   processed_records, cursorBound, raised, returned, rollbacks,
                   log, today, claim_data, env, verdict>>

\* line 242: connection.commit() after the last record.  COMMIT of a failed
\* transaction ends it without an error and without making anything durable.
Commit ==
    /\ pc = "loop"
    /\ i > Len(claims_data)
    /\ \E commitOk \in BOOLEAN :
         IF txAborted \/ commitOk
         THEN /\ staging' = IF txAborted THEN staging ELSE staging \o txStaging
              /\ claims' = IF txAborted THEN claims ELSE claims \o txClaims
              /\ txStaging' = <<>> /\ txClaims' = <<>>
              /\ txOpen' = FALSE /\ txAborted' = FALSE
              /\ commits' = commits + 1
              /\ pc' = "committed"
              /\ UNCHANGED exc
         ELSE /\ exc' = "CommitError"
              /\ pc' = "except"
              /\ UNCHANGED <<staging, claims, txStaging, txClaims, txOpen,
                             txAborted, commits>>
    /\ UNCHANGED <<file, claims_data, i, valid_records, invalid_records,
                   processed_records, cursorBound, raised, returned, rollbacks,
                   log, today, claim_data, env, verdict>>

\* what leaves the function when the except clause re-raises x: with `cursor`
\* never assigned, `if cursor:` of the finally clause raises UnboundLocalError,
\* which replaces x
Reraised(x, bound) == IF bound THEN x ELSE "UnboundLocalError"

\* the except clause without its connection.rollback()
HandleFailureNoRollback ==
    /\ pc = "except"
    /\ raised' = Reraised(exc, cursorBound)
    /\ pc' = "raised"
    /\ UNCHANGED <<file, claims_data, i, valid_records, invalid_records,
                   processed_records, cursorBound, txOpen, txAborted, txStaging,
                   txClaims, staging, claims, exc, returned, commits, rollbacks,
                   log, today, claim_data, env, verdict>>

\* lines 245-252: log, connection.rollback(), raise, then the finally clause
HandleFailure ==
    /\ pc = "except"
    /\ txStaging' = <<>> /\ txClaims' = <<>>
    /\ txOpen' = FALSE /\ txAborted' = FALSE
    /\ rollbacks' = rollbacks + 1
    /\ raised' = Reraised(exc, cursorBound)
    /\ pc' = "raised"
    /\ UNCHANGED <<file, claims_data, i, valid_records, invalid_records,
                   processed_records, cursorBound, staging, claims, exc,
                   returned, commits, log, today, claim_data, env, verdict>>

\* lines 250-254: the finally clause closes the cursor, the triple is returned
Finish ==
    /\ pc = "committed"
    /\ returned' = <<valid_records, invalid_records, processed_records>>
    /\ pc' = "returned"
    /\ UNCHANGED <<file, claims_data, i, valid_records, invalid_records,
                   processed_records, cursorBound, txOpen, txAborted, txStaging,
                   txClaims, staging, claims, exc, raised, commits, rollbacks,
                   log, today, claim_data, env, verdict>>

Next == ReadFile \/ ProcessRecord \/ Commit \/ HandleFailure \/ Finish

Spec == Init /\ [][Next]_vars

----------------------------------------------------------------------------
(* Properties of process_json_file (specification Spec)                      *)

Logged(op, pos, res) == \E k \in 1..Len(log) : log[k] = Event(op, pos, res)

Positions == 1..Len(claims_data)

\* no INSERT was refused and no promotion raised
StoreRefusedNothing ==
    \A k \in Positions : ~Logged("stage", k, "error") /\ ~Logged("promote", k, "raised")

\* C1: when the batch ends in a commit, exactly one staging entry is durable
\* per input record read, carrying the record's 1-based position, whatever
\* the verdict or an exception raised while the record is evaluated (stated
\* here for the batches in which the store refused no INSERT and no promotion).
C1_OneStagingEntryPerRecord ==
    (pc = "returned" /\ StoreRefusedNothing) =>
        /\ Len(staging) = Len(claims_data)
        /\ \A k \in Positions : staging[k].record_number = k

\* C2: the returned counters satisfy
\* valid_count + invalid_count = number of records read.
C2_CountersSumToRecordsRead ==
    pc = "returned" => returned[1] + returned[2] = Len(claims_data)

\* C3: a failure outside the per-record boundary (unreadable source, no
\* cursor, failing commit) rolls the unit of work back, nothing of the file is
\* durable, and the failure that occurred is the one raised to the caller.
C3_RollbackAndSameFailureRaised ==
    pc = "raised" =>
        /\ rollbacks = 1
        /\ staging = <<>> /\ claims = <<>>
        /\ raised = exc

\* C4: when the promotion raises on record k the batch is not aborted: it
\* commits with record k's staging entry durable, record k is counted invalid,
\* and every later record is evaluated, staged and, if valid, promoted.
C4_PromotionFailureKeepsBatch ==
    \A k \in Positions :
        (pc = "returned" /\ Logged("promote", k, "raised")) =>
            /\ \E r \in 1..Len(staging) : staging[r].record_number = k
            /\ returned[2] >= 1
            /\ \A j \in Positions : j > k =>
                  /\ Logged("evaluate", j, "invalid") => Logged("stage", j, "ok")
                  /\ Logged("evaluate", j, "valid") =>
                        (Logged("stage", j, "ok") /\ Logged("adjudicate", j, "ok"))

\* C5: the unit of work is ended exactly once per call: one commit after the
\* last record and then the counters are returned, or one rollback and then
\* an exception is raised; never a commit before the last record, never
\* counters after a rollback, never an open unit of work when the call ends.
C5_UnitOfWorkEndedExactlyOnce ==
    /\ commits + rollbacks <= 1
    /\ commits = 1 => (pc \in {"committed", "returned"} /\ i > Len(claims_data))
    /\ rollbacks = 1 => (pc = "raised" /\ returned = <<>>)
    /\ pc = "returned" => (commits = 1 /\ rollbacks = 0 /\ raised = "none"
                           /\ returned # <<>>)
    /\ pc = "raised" => (rollbacks = 1 /\ commits = 0 /\ raised # "none"
                         /\ returned = <<>>)
    /\ pc \in {"returned", "raised"} =>
           (~txOpen /\ txStaging = <<>> /\ txClaims = <<>>)
    /\ pc \in {"start", "loop", "except"} => (commits = 0 /\ rollbacks = 0)

\* C5 witness: a commit that failed after records were staged, rolled back
\* and raised.
C5_Witness ==
    /\ pc = "raised" /\ exc = "CommitError"
    /\ Len(claims_data) >= 2
    /\ Logged("stage", 1, "ok")

\* C6: process_valid_claim runs for a record only after the rule engine found
\* it valid and after its staging entry was written; a record with an invalid
\* verdict never reaches the adjudication procedure.
C6_PromotionOnlyAfterValidAndStaged ==
    \A k \in 1..Len(log) :
        log[k].op \in {"promote", "adjudicate"} =>
            \E a \in 1..(k - 1) : \E b \in (a + 1)..(k - 1) :
                /\ log[a] = Event("evaluate", log[k].pos, "valid")
                /\ log[b] = Event("stage", log[k].pos, "ok")

\* C6 witness: a batch in which one record was promoted and another, found
\* invalid, was staged and not promoted.
C6_Witness ==
    \E k \in Positions : \E j \in Positions :
        /\ Logged("promote", k, "ok")
        /\ Logged("evaluate", j, "invalid") /\ Logged("stage", j, "ok")
        /\ pc = "returned"

----------------------------------------------------------------------------
(* Properties of validate_claim_data (specification SpecV)                   *)

Called == verdict # NoVerdict

\* a field that is absent or empty
EmptyValue(v) == v.t \in {"absent", "null"} \/ (v.t = "str" /\ v.s = <<>>)

RECURSIVE MissingOf(_, _)
MissingOf(c, k) ==
    IF k > Len(required_fields) THEN <<>>
    ELSE (IF EmptyValue(c[required_fields[k]])
          THEN <<Msg("Missing required field", required_fields[k])>> ELSE <<>>)
         \o MissingOf(c, k + 1)

\* C7: for a record with at least one required field absent or empty the
\* verdict is invalid with exactly one error per missing field, no other error
\* or warning, and no lookup or other rule was performed.
C7_MissingFieldsOnly ==
    (Called /\ \E f \in Fields : EmptyValue(claim_data[f])) =>
        /\ verdict.raised = "none"
        /\ ~verdict.is_valid
        /\ verdict.errors = MissingOf(claim_data, 1)
        /\ verdict.warnings = <<>>
        /\ verdict.lookups = <<>>
        /\ verdict.checks = <<>>

\* C8: validation never raises: whatever the values and value types of the
\* fields, validate_claim_data returns a verdict.
C8_ValidationNeverRaises ==
    Called => verdict.raised = "none"

AllChecks == <<"member", "ndc", "pharmacy_npi", "date_filled", "quantity", "cost">>

PresencePasses(c) == \A f \in Fields : c[f].t # "absent" /\ Truthy(c[f])

FieldIndex(f) == CHOOSE k \in 1..Len(required_fields) : required_fields[k] = f

\* C9: once the presence check passes, the member, drug-code, pharmacy, date,
\* quantity and cost checks are each evaluated exactly once and in that order,
\* whether or not an earlier check failed, and the errors are in check order,
\* at most one per check.
C9_AllChecksInOrder ==
    (Called /\ PresencePasses(claim_data)) =>
        /\ verdict.checks = AllChecks
        /\ \A a \in 1..Len(verdict.errors) : \A b \in 1..Len(verdict.errors) :
               a < b => FieldIndex(verdict.errors[a].field)
                          < FieldIndex(verdict.errors[b].field)

\* the drug code has one of the three physical formats
HasNdcFormat(s) == \E p \in 1..Len(ndc_patterns) : DigitGroups(s, ndc_patterns[p])

\* the pharmacy identifier is exactly 10 digits
IsTenDigits(s) == Len(s) = NpiDigits /\ AllDigits(s)

HasError(m) == \E k \in 1..Len(verdict.errors) : verdict.errors[k].msg = m

Performed(name) == \E k \in 1..Len(verdict.lookups) : verdict.lookups[k] = name

\* C10: a drug code that has none of the formats 5-3-2, 5-4-1, 4-4-2 fails
\* the drug check without a drug lookup, and a pharmacy identifier that is not
\* exactly 10 digits fails the pharmacy check without a pharmacy lookup.
C10_FormatFailureSkipsLookup ==
    (Called /\ verdict.raised = "none" /\ PresencePasses(claim_data)) =>
        /\ (claim_data["ndc"].t = "str" /\ ~HasNdcFormat(claim_data["ndc"].s)) =>
               (HasError("Invalid NDC code") /\ ~Performed("ndc"))
        /\ (claim_data["pharmacy_npi"].t = "str"
                /\ ~IsTenDigits(claim_data["pharmacy_npi"].s)) =>
               (HasError("Invalid or out-of-network pharmacy NPI") /\ ~Performed("npi"))

\* the error entry of the check that lookup `name` belongs to
LookupError(name) ==
    CASE name = "member" -> Msg("Invalid or inactive member ID", "member_id")
      [] name = "ndc"    -> Msg("Invalid NDC code", "ndc")
      [] name = "npi"    -> Msg("Invalid or out-of-network pharmacy NPI", "pharmacy_npi")

\* record c with the identifier that lookup `name` reads replaced by a
\* well-formed one the store has no row for
Unknown(c, name) ==
    CASE name = "member" -> [c EXCEPT !.member_id = Str(M_UNKNOWN)]
      [] name = "ndc"    -> [c EXCEPT !.ndc = Str(N_532_X)]
      [] name = "npi"    -> [c EXCEPT !.pharmacy_npi = Str(P_UNKNOWN)]

HasEntry(e) == \E k \in 1..Len(verdict.errors) : verdict.errors[k] = e

C12_ValidIffNoErrors ==
    (Called /\ verdict.raised = "none") =>
        (verdict.is_valid <=> verdict.errors = <<>>)

\* C12 witness: a returned verdict that is valid and carries two warnings.
C12_Witness ==
    /\ Called /\ verdict.raised = "none"
    /\ verdict.is_valid
    /\ Len(verdict.warnings) = 2

----------------------------------------------------------------------------
(* Further properties of process_json_file (specification Spec)              *)

\* positions whose promotion was started, and those whose promotion returned
Promoted == {k \in Positions : Logged("promote", k, "ok") \/ Logged("promote", k, "raised")}

PromotedOk == {k \in Positions : Logged("promote", k, "ok")}

\* C13: at every point of process_json_file and in the returned triple,
\* processed_count <= valid_count: processed_count counts the records whose
\* promotion returned without raising, and each of them was counted in
\* valid_count before its promotion started.
C13_ProcessedWithinValid ==
    /\ processed_records <= valid_records
    /\ processed_records = Cardinality(PromotedOk)
    /\ valid_records = Cardinality(Promoted)
    /\ \A k \in PromotedOk : Logged("evaluate", k, "valid")
    /\ pc = "returned" => returned[3] <= returned[1]

\* C13 witness: a returned triple with a promoted record and a valid record
\* whose promotion raised.
C13_Witness ==
    /\ pc = "returned"
    /\ returned[3] >= 1 /\ returned[3] < returned[1]
    /\ \E k \in Positions : Logged("promote", k, "raised")

----------------------------------------------------------------------------
(* Further properties of validate_claim_data (specification SpecV)           *)

\* the entries of a list of errors or warnings that are about the fill date
DateEntries(es) == SelectSeq(es, LAMBDA x : x.field = "date_filled")

\* C14: for a verdict returned on a record that passes the presence check
\* and whose fill date is text: a date that does not parse yields exactly the
\* error "Invalid date format" and no date warning; a date strictly after the
\* current date yields exactly the future-date error; a date more than 365
\* days before the current date yields exactly the age warning and no date
\* error, and with every lookup answering the record is valid exactly when
\* it is valid with today's date; a date from 365 days ago up to today yields
\* neither an error nor a warning.
C14_FillDateRule ==
    (Called /\ verdict.raised = "none" /\ PresencePasses(claim_data)
            /\ claim_data["date_filled"].t = "str") =>
        \E p \in {ParseDate(claim_data["date_filled"].s)} :
            /\ p = 0 =>
                  /\ DateEntries(verdict.errors)
                        = <<Msg("Invalid date format", "date_filled")>>
                  /\ DateEntries(verdict.warnings) = <<>>
            /\ p > today =>
                  /\ DateEntries(verdict.errors)
                        = <<Msg("Fill date cannot be in the future", "date_filled")>>
                  /\ DateEntries(verdict.warnings) = <<>>
            /\ (p # 0 /\ p < today - 365) =>
                  /\ DateEntries(verdict.errors) = <<>>
                  /\ DateEntries(verdict.warnings)
                        = <<Msg("Fill date is more than 1 year old", "date_filled")>>
                  /\ (env = EnvOk /\ ~verdict.aborted) =>
                        verdict.is_valid =
                          validate_claim_data(
                            [claim_data EXCEPT !.date_filled = Str(D_TODAY)],
                            EnvOk, FALSE, today).is_valid
            /\ (p >= today - 365 /\ p <= today) =>
                  /\ DateEntries(verdict.errors) = <<>>
                  /\ DateEntries(verdict.warnings) = <<>>

\* C14 witness: a record whose only issue is a fill date 366 days old was
\* found valid with the age warning.
C14_Witness ==
    /\ Called /\ verdict.raised = "none"
    /\ claim_data = [GoodClaim EXCEPT !.date_filled = Str(D_366)]
    /\ ParseDate(D_366) = today - 366
    /\ verdict.is_valid
    /\ verdict.warnings = <<Msg("Fill date is more than 1 year old", "date_filled")>>

----------------------------------------------------------------------------
(* Evaluating the same record again on the same connection                   *)

\* validator.validate_claim_data(claim_data) called again: the same record,
\* the same store, the connection as the previous evaluation left it
Revalidate ==
    /\ verdict # NoVerdict
    /\ \E v \in {validate_claim_data(claim_data, env, txAborted, today)} :
         /\ verdict' = v
         /\ txAborted' = v.aborted
         /\ txOpen' = (txOpen \/ v.lookups # <<>>)
    /\ UNCHANGED <<pc, file, claims_data, i, valid_records, invalid_records,
                   processed_records, cursorBound, txStaging, txClaims, staging,
                   claims, exc, raised, returned, commits, rollbacks, log,
                   today, claim_data, env>>

NextR == Validate \/ Revalidate

SpecR == InitV /\ [][NextR]_vars

\* C15: re-evaluating the same record against an unchanged store yields an
\* identical verdict: the same is_valid, the same errors in the same order,
\* the same warnings in the same order.
C15_ReevaluationIdentical ==
    [][verdict # NoVerdict =>
          /\ verdict'.is_valid = verdict.is_valid
          /\ verdict'.errors = verdict.errors
          /\ verdict'.warnings = verdict.warnings]_vars

----------------------------------------------------------------------------
(* Committed adjudication effects (specification Spec)                       *)

\* the durable process_claim effect of the record at position k
Adjudicated(k) == \E r \in 1..Len(claims) : claims[r].record_number = k

\* C16: after the batch commits, processed_count equals the number of
\* process_claim effects made durable by the commit, and a record whose
\* promotion raised, before, during or after the process_claim call, has no
\* durable process_claim effect.
C16_ProcessedEqualsCommittedEffects ==
    pc = "returned" =>
        /\ returned[3] = Len(claims)
        /\ \A k \in Positions : Logged("promote", k, "raised") => ~Adjudicated(k)

----------------------------------------------------------------------------
(* main: two files, one after the other, on the same connection              *)

MaxMainRecords == 1

MainFiles(name) == FilesNamed(name, MaxMainRecords)

InitMain ==
    /\ pc = "start"
    /\ file \in MainFiles(FirstFile)
    /\ claims_data = <<>> /\ i = 0
    /\ valid_records = 0 /\ invalid_records = 0 /\ processed_records = 0
    /\ cursorBound = FALSE
    /\ txOpen = FALSE /\ txAborted = FALSE
    /\ txStaging = <<>> /\ txClaims = <<>>
    /\ staging = <<>> /\ claims = <<>>
    /\ exc = "none" /\ raised = "none" /\ returned = <<>>
    /\ commits = 0 /\ rollbacks = 0
    /\ log = <<>>
    /\ today = Today
    /\ claim_data = GoodClaim /\ env = EnvOk /\ verdict = NoVerdict

\* main, lines 470-474: the first call has returned and process_json_file is
\* called for the second file; the call starts with its own locals, and the
\* connection, with whatever unit of work is open on it, is the same.  (A
\* call that raises ends main: line 484.)  commits, rollbacks and log are
\* those of the current call.
NextFile ==
    /\ pc = "returned"
    /\ file.name = FirstFile
    /\ file' \in MainFiles(SecondFile)
    /\ pc' = "start"
    /\ claims_data' = <<>> /\ i' = 0
    /\ valid_records' = 0 /\ invalid_records' = 0 /\ processed_records' = 0
    /\ cursorBound' = FALSE
    /\ exc' = "none" /\ returned' = <<>>
    /\ commits' = 0 /\ rollbacks' = 0
    /\ log' = <<>>
    /\ UNCHANGED <<txOpen, txAborted, txStaging, txClaims, staging, claims,
                   raised, today, claim_data, env, verdict>>

NextMain == Next \/ NextFile

SpecMain == InitMain /\ [][NextMain]_vars

IsPrefix(a, b) == Len(a) <= Len(b) /\ SubSeq(b, 1, Len(a)) = a

\* C17: with files processed one after another on the same connection, no
\* step changes or removes a durable staging entry or adjudication effect; a
\* call that ends in a rollback adds none; the entries and effects a commit
\* makes durable all belong to the file being processed; and every call
\* starts with no unit of work open and nothing pending from the file before.
C17_FilesKeepTheirOwnUnitOfWork ==
    [][/\ IsPrefix(staging, staging') /\ IsPrefix(claims, claims')
       /\ (pc' = "raised") => (staging' = staging /\ claims' = claims)
       /\ \A r \in (Len(staging) + 1)..Len(staging') :
              staging'[r].file_name = file.name
       /\ \A r \in (Len(claims) + 1)..Len(claims') :
              claims'[r].file_name = file.name
       /\ (pc' = "start") =>
              (~txOpen' /\ ~txAborted' /\ txStaging' = <<>> /\ txClaims' = <<>>)
      ]_vars

\* C17 witness: the first file committed a staging entry and an adjudication
\* effect; the second file staged its record, its commit failed and its unit
\* of work was rolled back, and what the first file committed is what is
\* durable.
C17_Witness ==
    /\ pc = "raised" /\ file.name = SecondFile
    /\ rollbacks = 1 /\ Logged("stage", 1, "ok")
    /\ Len(staging) = 1 /\ staging[1].file_name = FirstFile
    /\ Len(claims) = 1 /\ claims[1].file_name = FirstFile

====
